---- MODULE Spec2Model ----
(***************************************************************************)
(* A model of the type-erased callable container function<R(Args...)>.    *)
(* Three variants of the container exist in the repository:               *)
(*   "final"  - src/unnamed/part_000                                       *)
(*   "draft1" - src/function.h, lines 1-220                                *)
(*   "draft2" - src/function.h, lines 221-408                              *)
(* The variable ver selects the variant; it never changes in a behaviour. *)
(*                                                                         *)
(* Payload objects are numbered in the order their constructors run; an    *)
(* object is never renumbered.  A slot (storage_t) is a record of what its *)
(* bytes are: nothing meaningful ("raw"), the bytes of an inline object    *)
(* ("inl"), or a pointer to a heap object ("ptr").  A byte copy of a slot  *)
(* (dst = src, storage = buf, std::swap) copies the record.                *)
(***************************************************************************)
EXTENDS Integers, Sequences, FiniteSets, TLC

VARIABLES ver, alive, desc, storage, objs, ub, origin, ret

vars == <<ver, alive, desc, storage, objs, ub, origin, ret>>

(* ---- bounds ---------------------------------------------------------- *)
NumCont == 2
MaxObj == 3

Cont == 1..NumCont

(* ---- payload types used as inputs ------------------------------------ *)
\* "S": 4 bytes, non-raising moves.  "L": 16 bytes.  "M": 4 bytes, but its
\* move constructor may raise.  "E": exactly as large as the slot.
Types == {"S", "L", "M", "E"}
Vals == {5, 7}
\* The captured values the callables of type T are built with.
ValsOf(T) == IF T \in {"S", "L"} THEN Vals ELSE {5}
ArgVals == {3}
\* The arguments on which the callables' call operator raises.
RaiseArgs == {0}

SizeOf(T) == CASE T = "S" -> 4 [] T = "L" -> 16 [] T = "M" -> 4 [] T = "E" -> 8
AlignOf(T) == CASE T = "S" -> 4 [] T = "L" -> 8 [] T = "M" -> 4 [] T = "E" -> 8
NothrowMoveCtor(T) == T # "M"
NothrowMoveAssign(T) == T # "M"

(* ---- storage slot ---------------------------------------------------- *)
SlotSize == 8
SlotAlign == 8

Raw == [k |-> "raw", id |-> 0]
Inl(id) == [k |-> "inl", id |-> id]
Ptr(id) == [k |-> "ptr", id |-> id]

Null == 0
Wild == -1

\* A classification that admits a payload exactly as large as the slot.
fits_small_or_equal(T) ==
  /\ SizeOf(T) <= SlotSize
  /\ SlotAlign % AlignOf(T) = 0
  /\ NothrowMoveAssign(T)
  /\ NothrowMoveCtor(T)

fits_small(T) ==
  /\ SizeOf(T) < SlotSize
  /\ SlotAlign % AlignOf(T) = 0
  /\ NothrowMoveAssign(T)
  /\ NothrowMoveCtor(T)

\* reinterpret_cast<T*>(&storage): the object whose bytes the slot holds.
\* When the slot holds something else there is no T at that address.
small_cast(slot) == IF slot.k = "inl" THEN slot.id ELSE Wild

\* *reinterpret_cast<T**>(&storage): the pointer the slot holds.  When the
\* slot holds something else the bytes read as a pointer to nowhere.
big_cast(slot) == IF slot.k = "ptr" THEN slot.id ELSE Wild

cast(T, slot) == IF fits_small(T) THEN small_cast(slot) ELSE big_cast(slot)

(* ---- payload objects ------------------------------------------------- *)
\* ndtor: how many times the destructor ran; nfree: how many times the heap
\* block was deallocated (both saturate at 2).
Obj(T, v, h) == [type |-> T, val |-> v, heap |-> h, ndtor |-> 0, nfree |-> 0]

Inc(n) == IF n < 2 THEN n + 1 ELSE 2

Valid(os, p) == p \in 1..Len(os) /\ os[p].ndtor = 0 /\ os[p].nfree = 0

\* Reading the captured value through p; through a pointer to no live
\* object the read yields any value g.
ReadVal(os, p, g) == IF Valid(os, p) THEN os[p].val ELSE g

\* p->~T(): the object's value is gone.
Dtor(os, p) ==
  IF p \in 1..Len(os)
    THEN [os EXCEPT ![p].ndtor = Inc(@), ![p].val = 0, ![p].type = ""]
    ELSE os

\* delete p
Delete(os, p) ==
  IF p \in 1..Len(os)
    THEN [os EXCEPT ![p].ndtor = Inc(@), ![p].nfree = Inc(@),
                    ![p].val = 0, ![p].type = ""]
    ELSE os

\* The outcome of one descriptor operation.
Res(os, src, dst, raised, bad) ==
  [objs |-> os, src |-> src, dst |-> dst, raised |-> raised, ub |-> bad]


(* ---- operation descriptors ------------------------------------------- *)
\* A descriptor is named by the payload type it is bound to; EmptyDesc names
\* the empty singleton.
EmptyDesc == "empty"

\* part_000: the empty descriptor's copy, move and destroy do nothing.
empty_copy_final(os, src, dst) == Res(os, src, dst, FALSE, FALSE)
empty_move_final(os, src, dst) == Res(os, src, dst, FALSE, FALSE)

\* both drafts: the empty descriptor's copy and move are dst = src.
empty_copy_draft(os, src, dst) == Res(os, src, src, FALSE, FALSE)
empty_move_draft(os, src, dst) == Res(os, src, src, FALSE, FALSE)

empty_destroy(os, src) == os

\* A copy that copies the slot's bytes.
copy_shallow(T, os, src, dst, raise, g) == Res(os, src, src, FALSE, FALSE)

\* part_000 (and the second draft): copy.
copy_final(T, os, src, dst, raise, g) ==
  IF fits_small(T)
    THEN LET p == small_cast(src) IN
         IF raise THEN Res(os, src, dst, TRUE, ~Valid(os, p))
         ELSE Res(Append(os, Obj(T, ReadVal(os, p, g), FALSE)), src,
                  Inl(Len(os) + 1), FALSE, ~Valid(os, p))
    ELSE LET p == big_cast(src) IN
         IF raise THEN Res(os, src, dst, TRUE, ~Valid(os, p))
         ELSE Res(Append(os, Obj(T, ReadVal(os, p, g), TRUE)), src,
                  Ptr(Len(os) + 1), FALSE, ~Valid(os, p))

\* first draft: copy.  The small path is a byte copy of the slot.
copy_draft1(T, os, src, dst, raise, g) ==
  IF fits_small(T)
    THEN Res(os, src, src, FALSE, FALSE)
    ELSE LET p == big_cast(src) IN
         IF raise THEN Res(os, src, dst, TRUE, ~Valid(os, p))
         ELSE Res(Append(os, Obj(T, ReadVal(os, p, g), TRUE)), src,
                  Ptr(Len(os) + 1), FALSE, ~Valid(os, p))

\* A move whose small path copies the slot's bytes and then destroys the
\* object in src.
move_bytes_then_destroy(T, os, src, dst, raise, g) ==
  IF fits_small(T)
    THEN Res(Dtor(os, small_cast(src)), src, src, FALSE, FALSE)
    ELSE Res(os, src, src, FALSE, FALSE)

\* A move whose large path makes a new heap object from the old one and
\* deletes the old one.
move_large_by_copy(T, os, src, dst, raise, g) ==
  IF fits_small(T)
    THEN LET p == small_cast(src) IN
         Res(Dtor(Append(os, Obj(T, ReadVal(os, p, g), FALSE)), p), src,
             Inl(Len(os) + 1), FALSE, ~Valid(os, p))
    ELSE LET p == big_cast(src) IN
         Res(Delete(Append(os, Obj(T, ReadVal(os, p, g), TRUE)), p), src,
             Ptr(Len(os) + 1), FALSE, ~Valid(os, p))

\* part_000: move.  Small: move-construct into dst, destroy the object in
\* src.  Large: the pointer read from src is written to dst.
move_final(T, os, src, dst, raise, g) ==
  IF fits_small(T)
    THEN LET p == small_cast(src) IN
         Res(Dtor(Append(os, Obj(T, ReadVal(os, p, g), FALSE)), p), src,
             Inl(Len(os) + 1), FALSE, ~Valid(os, p))
    ELSE Res(os, src, src, FALSE, FALSE)

\* first draft: move.  Small: byte copy.  Large: a new heap object is
\* move-constructed from the old one; a raise is caught and the slots are
\* swapped.
move_draft1(T, os, src, dst, raise, g) ==
  IF fits_small(T)
    THEN Res(os, src, src, FALSE, FALSE)
    ELSE LET p == big_cast(src) IN
         IF raise THEN Res(os, dst, src, FALSE, ~Valid(os, p))
         ELSE Res(Append(os, Obj(T, ReadVal(os, p, g), TRUE)), src,
                  Ptr(Len(os) + 1), FALSE, ~Valid(os, p))

\* second draft: move.  Small: move-construct into dst; the object in src
\* is left as it is.
move_draft2(T, os, src, dst, raise, g) ==
  IF fits_small(T)
    THEN LET p == small_cast(src) IN
         Res(Append(os, Obj(T, ReadVal(os, p, g), FALSE)), src,
             Inl(Len(os) + 1), FALSE, ~Valid(os, p))
    ELSE Res(os, src, src, FALSE, FALSE)

\* A destroy that forgets the deallocation.
destroy_without_delete(T, os, src) == Dtor(os, cast(T, src))

\* part_000 (and the second draft): destroy.
destroy_final(T, os, src) ==
  IF fits_small(T) THEN Dtor(os, small_cast(src))
                   ELSE Delete(os, big_cast(src))

\* first draft: destroy runs the destructor only.
destroy_draft1(T, os, src) == Dtor(os, cast(T, src))

\* Whether destroy goes through a pointer to a live object.
destroy_ub(T, os, src) == ~Valid(os, cast(T, src))

\* An invoke that catches what the callable raises and returns a value.
invoke_swallows(T, os, src, x) ==
  LET p == cast(T, src) IN
  {[res |-> "returned", v |-> n] :
     n \in IF Valid(os, p) THEN {os[p].val + x} ELSE {v + x : v \in Vals}}

\* invoke: the callable adds its captured value to the argument, or raises
\* when the argument is one it rejects; nothing is caught.  Through a
\* pointer to no live object any value may be read.
invoke(T, os, src, x) ==
  LET p == cast(T, src) IN
  IF x \in RaiseArgs
    THEN {[res |-> "raised", v |-> 0]}
    ELSE {[res |-> "returned", v |-> n] :
            n \in IF Valid(os, p) THEN {os[p].val + x}
                                  ELSE {v + x : v \in Vals}}

\* An empty descriptor whose invoke returns a value.
empty_invoke_returns(os, src, x) == {[res |-> "returned", v |-> 0]}

\* the empty descriptor's invoke: throw bad_function_call{}
empty_invoke(os, src, x) == {[res |-> "bad_function_call", v |-> 0]}

\* Dispatch through the descriptor d of the variant in use.
desc_copy(d, os, src, dst, raise, g) ==
  IF d = EmptyDesc
    THEN IF ver = "final" THEN empty_copy_final(os, src, dst)
                          ELSE empty_copy_draft(os, src, dst)
    ELSE IF ver = "draft1" THEN copy_draft1(d, os, src, dst, raise, g)
                           ELSE copy_final(d, os, src, dst, raise, g)

desc_move(d, os, src, dst, raise, g) ==
  IF d = EmptyDesc
    THEN IF ver = "final" THEN empty_move_final(os, src, dst)
                          ELSE empty_move_draft(os, src, dst)
    ELSE CASE ver = "final" -> move_final(d, os, src, dst, raise, g)
           [] ver = "draft1" -> move_draft1(d, os, src, dst, raise, g)
           [] ver = "draft2" -> move_draft2(d, os, src, dst, raise, g)

desc_destroy(d, os, src) ==
  IF d = EmptyDesc THEN empty_destroy(os, src)
  ELSE IF ver = "draft1" THEN destroy_draft1(d, os, src)
                         ELSE destroy_final(d, os, src)

desc_destroy_ub(d, os, src) == d # EmptyDesc /\ destroy_ub(d, os, src)

desc_invoke(d, os, src, x) ==
  IF d = EmptyDesc THEN empty_invoke(os, src, x) ELSE invoke(d, os, src, x)


(* ---- the container --------------------------------------------------- *)
\* The part of the state the container's code reads and writes.
World ==
  [alive |-> alive, desc |-> desc, storage |-> storage, objs |-> objs,
   ub |-> ub]

\* The outcome of one container operation.
Out(w, raised) == [w |-> w, raised |-> raised]

\* function() noexcept: the slot is left uninitialised.
function_default(w, c) ==
  Out([w EXCEPT !.alive[c] = TRUE, !.desc[c] = EmptyDesc,
                !.storage[c] = Raw], FALSE)

\* function(function const& other)
function_copy_ctor(w, c, o, raise, g) ==
  LET r == desc_copy(w.desc[o], w.objs, w.storage[o], Raw, raise, g) IN
  IF r.raised
    THEN Out([w EXCEPT !.objs = r.objs, !.ub = @ \/ r.ub], TRUE)
    ELSE Out([w EXCEPT !.alive[c] = TRUE, !.desc[c] = w.desc[o],
                       !.storage[c] = r.dst, !.objs = r.objs,
                       !.ub = @ \/ r.ub], FALSE)

\* A move constructor that forgets to rebind other to the empty descriptor.
function_move_ctor_keeps_desc(w, c, o, raise, g) ==
  LET d == w.desc[o]
      r == desc_move(d, w.objs, w.storage[o], Raw, raise, g) IN
  Out([w EXCEPT !.alive[c] = TRUE, !.desc[c] = d,
                !.storage[c] = r.dst, !.storage[o] = r.src,
                !.objs = r.objs, !.ub = @ \/ r.ub], FALSE)

\* function(function&& other): other is rebound to the empty descriptor,
\* then the move is made; a raise of the move leaves the constructor.
function_move_ctor(w, c, o, raise, g) ==
  LET d == w.desc[o]
      r == desc_move(d, w.objs, w.storage[o], Raw, raise, g) IN
  IF r.raised
    THEN Out([w EXCEPT !.desc[o] = EmptyDesc, !.storage[o] = r.src,
                       !.objs = r.objs, !.ub = @ \/ r.ub], TRUE)
    ELSE Out([w EXCEPT !.alive[c] = TRUE, !.desc[c] = d,
                       !.desc[o] = EmptyDesc,
                       !.storage[c] = r.dst, !.storage[o] = r.src,
                       !.objs = r.objs, !.ub = @ \/ r.ub], FALSE)

\* function(T val), first draft: the payload is placed inline when its size
\* and alignment allow, whatever its moves may do.
function_val_draft1(w, c, T, v, raise) ==
  IF SizeOf(T) < SlotSize /\ SlotAlign % AlignOf(T) = 0
    THEN IF raise /\ ~NothrowMoveCtor(T) THEN Out(w, TRUE)
         ELSE Out([w EXCEPT !.alive[c] = TRUE, !.desc[c] = T,
                            !.storage[c] = Inl(Len(w.objs) + 1),
                            !.objs = Append(@, Obj(T, v, FALSE))], FALSE)
    ELSE IF raise THEN Out(w, TRUE)
         ELSE Out([w EXCEPT !.alive[c] = TRUE, !.desc[c] = T,
                            !.storage[c] = Ptr(Len(w.objs) + 1),
                            !.objs = Append(@, Obj(T, v, TRUE))], FALSE)

\* A value constructor that decides the placement by size and alignment
\* alone.
function_val_by_size(w, c, T, v, raise) ==
  function_val_draft1(w, c, T, v, raise)

\* function(T val), part_000 and the second draft: the payload is placed
\* inline exactly when fits_small<T>.
function_val_final(w, c, T, v, raise) ==
  IF fits_small(T)
    THEN Out([w EXCEPT !.alive[c] = TRUE, !.desc[c] = T,
                       !.storage[c] = Inl(Len(w.objs) + 1),
                       !.objs = Append(@, Obj(T, v, FALSE))], FALSE)
    ELSE IF raise THEN Out(w, TRUE)
         ELSE Out([w EXCEPT !.alive[c] = TRUE, !.desc[c] = T,
                            !.storage[c] = Ptr(Len(w.objs) + 1),
                            !.objs = Append(@, Obj(T, v, TRUE))], FALSE)

function_val(w, c, T, v, raise) ==
  IF ver = "draft1" THEN function_val_draft1(w, c, T, v, raise)
                    ELSE function_val_final(w, c, T, v, raise)

\* operator=(function const&), first draft: the old value is destroyed and
\* the descriptor rebound before the copy is made.
assign_copy_draft1(w, c, o, raise, g) ==
  IF c = o THEN Out(w, FALSE)
  ELSE
    LET os1 == desc_destroy(w.desc[c], w.objs, w.storage[c])
        bad1 == desc_destroy_ub(w.desc[c], w.objs, w.storage[c])
        r == desc_copy(w.desc[o], os1, w.storage[o], w.storage[c], raise, g)
    IN Out([w EXCEPT !.objs = r.objs, !.ub = @ \/ bad1 \/ r.ub,
                     !.desc[c] = w.desc[o], !.storage[c] = r.dst], r.raised)

\* A copy-assignment that destroys the old value before it copies.
assign_copy_unstaged(w, c, o, raise, g) ==
  assign_copy_draft1(w, c, o, raise, g)

\* A copy-assignment that, given an Empty source, only rebinds the target
\* and does not destroy the target's old value.
assign_copy_empty_keeps_old(w, c, o, raise, g) ==
  IF c = o THEN Out(w, FALSE)
  ELSE
    LET r == desc_copy(w.desc[o], w.objs, w.storage[o], Raw, raise, g) IN
    IF r.raised
      THEN Out([w EXCEPT !.objs = r.objs, !.ub = @ \/ r.ub], TRUE)
      ELSE IF w.desc[o] = EmptyDesc
        THEN Out([w EXCEPT !.desc[c] = EmptyDesc, !.storage[c] = r.dst], FALSE)
        ELSE Out([w EXCEPT
                    !.objs = desc_destroy(w.desc[c], r.objs, w.storage[c]),
                    !.ub = @ \/ r.ub
                             \/ desc_destroy_ub(w.desc[c], r.objs,
                                                w.storage[c]),
                    !.desc[c] = w.desc[o],
                    !.storage[c] = r.dst], FALSE)

\* operator=(function const&), part_000 and the second draft: the copy is
\* staged in buf, then the old value is destroyed and buf is adopted.
assign_copy_final(w, c, o, raise, g) ==
  IF c = o THEN Out(w, FALSE)
  ELSE
    LET r == desc_copy(w.desc[o], w.objs, w.storage[o], Raw, raise, g) IN
    IF r.raised
      THEN Out([w EXCEPT !.objs = r.objs, !.ub = @ \/ r.ub], TRUE)
      ELSE Out([w EXCEPT
                  !.objs = desc_destroy(w.desc[c], r.objs, w.storage[c]),
                  !.ub = @ \/ r.ub
                           \/ desc_destroy_ub(w.desc[c], r.objs, w.storage[c]),
                  !.desc[c] = w.desc[o],
                  !.storage[c] = r.dst], FALSE)

\* operator=(function const&), part_000, stopped after line 145: the copy is
\* in buf and the old value has been destroyed; desc and storage are not yet
\* assigned.
assign_copy_final_mid(w, c, o, raise, g) ==
  LET r == desc_copy(w.desc[o], w.objs, w.storage[o], Raw, raise, g) IN
  IF r.raised
    THEN Out([w EXCEPT !.objs = r.objs, !.ub = @ \/ r.ub], TRUE)
    ELSE Out([w EXCEPT
                !.objs = desc_destroy(w.desc[c], r.objs, w.storage[c]),
                !.ub = @ \/ r.ub
                         \/ desc_destroy_ub(w.desc[c], r.objs, w.storage[c])],
             FALSE)

assign_copy(w, c, o, raise, g) ==
  IF ver = "draft1" THEN assign_copy_draft1(w, c, o, raise, g)
                    ELSE assign_copy_final(w, c, o, raise, g)

\* A move-assignment without the this != &other test.
assign_move_no_self_test(w, c, o, raise, g) ==
  LET os1 == desc_destroy(w.desc[c], w.objs, w.storage[c])
      bad1 == desc_destroy_ub(w.desc[c], w.objs, w.storage[c])
      d == w.desc[o]
      r == desc_move(d, os1, w.storage[o], w.storage[c], raise, g)
      w1 == [w EXCEPT !.objs = r.objs, !.ub = @ \/ bad1 \/ r.ub,
                      !.desc[c] = d, !.storage[o] = r.src]
  IN Out([w1 EXCEPT !.storage[c] = r.dst, !.desc[o] = EmptyDesc], FALSE)

\* A move-assignment that forgets to rebind other to the empty descriptor.
assign_move_keeps_other(w, c, o, raise, g) ==
  IF c = o THEN Out(w, FALSE)
  ELSE
    LET os1 == desc_destroy(w.desc[c], w.objs, w.storage[c])
        bad1 == desc_destroy_ub(w.desc[c], w.objs, w.storage[c])
        d == w.desc[o]
        r == desc_move(d, os1, w.storage[o], w.storage[c], raise, g)
    IN Out([w EXCEPT !.objs = r.objs, !.ub = @ \/ bad1 \/ r.ub,
                     !.desc[c] = d, !.storage[c] = r.dst,
                     !.storage[o] = r.src], FALSE)

\* operator=(function&&) noexcept, part_000: destroy, adopt the
\* descriptor, move, then rebind other to the empty descriptor.
assign_move_final(w, c, o, raise, g) ==
  IF c = o THEN Out(w, FALSE)
  ELSE
    LET os1 == desc_destroy(w.desc[c], w.objs, w.storage[c])
        bad1 == desc_destroy_ub(w.desc[c], w.objs, w.storage[c])
        d == w.desc[o]
        r == desc_move(d, os1, w.storage[o], w.storage[c], raise, g)
    IN Out([w EXCEPT !.objs = r.objs, !.ub = @ \/ bad1 \/ r.ub,
                     !.desc[c] = d, !.storage[c] = r.dst,
                     !.storage[o] = r.src, !.desc[o] = EmptyDesc], FALSE)

\* operator=(function&&) noexcept, both drafts: other is rebound to the
\* empty descriptor before the move is made.
assign_move_draft(w, c, o, raise, g) ==
  IF c = o THEN Out(w, FALSE)
  ELSE
    LET os1 == desc_destroy(w.desc[c], w.objs, w.storage[c])
        bad1 == desc_destroy_ub(w.desc[c], w.objs, w.storage[c])
        d == w.desc[o]
        w1 == [w EXCEPT !.desc[c] = d, !.desc[o] = EmptyDesc]
        r == desc_move(d, os1, w.storage[o], w.storage[c], raise, g)
    IN Out([w1 EXCEPT !.objs = r.objs, !.ub = @ \/ bad1 \/ r.ub,
                      !.storage[c] = r.dst, !.storage[o] = r.src], FALSE)

\* operator=(function&&), part_000, stopped after line 154: the old value
\* has been destroyed and nothing else has happened.
assign_move_final_mid(w, c, o) ==
  Out([w EXCEPT !.objs = desc_destroy(w.desc[c], w.objs, w.storage[c]),
                !.ub = @ \/ desc_destroy_ub(w.desc[c], w.objs, w.storage[c])],
      FALSE)

assign_move(w, c, o, raise, g) ==
  IF ver = "final" THEN assign_move_final(w, c, o, raise, g)
                   ELSE assign_move_draft(w, c, o, raise, g)

\* ~function(): the container ceases to exist.
function_dtor(w, c) ==
  Out([w EXCEPT !.objs = desc_destroy(w.desc[c], w.objs, w.storage[c]),
                !.ub = @ \/ desc_destroy_ub(w.desc[c], w.objs, w.storage[c]),
                !.alive[c] = FALSE, !.desc[c] = "none",
                !.storage[c] = Raw], FALSE)

\* explicit operator bool() const noexcept
operator_bool(w, c) == EmptyDesc # w.desc[c]

\* R operator()(Args&&...) const: the set of possible outcomes.
operator_call(w, c, x) == desc_invoke(w.desc[c], w.objs, w.storage[c], x)

operator_call_ub(w, c) ==
  /\ w.desc[c] # EmptyDesc
  /\ ~Valid(w.objs, cast(w.desc[c], w.storage[c]))

\* target<T>(), part_000
target_final(w, c, T) ==
  IF T = w.desc[c] THEN cast(T, w.storage[c]) ELSE Null

\* target<T>(), both drafts
target_draft(w, c, T) ==
  IF operator_bool(w, c) /\ T = w.desc[c] THEN cast(T, w.storage[c])
                                          ELSE Null

target(w, c, T) ==
  IF ver = "final" THEN target_final(w, c, T) ELSE target_draft(w, c, T)


(* ---- state machine --------------------------------------------------- *)
\* ret records the last operation, its operands and its result.
\* origin[c] tells which callable f the payload of c descends from by copies
\* and moves: root is the object the value constructor made from f, v is f's
\* captured value (NoOrigin: none).  Writing through target<T>() makes the
\* written value the new v.
NoOrigin == [v |-> 0, root |-> 0]

Ret(op, dst, src, res, T, v) ==
  [op |-> op, dst |-> dst, src |-> src, res |-> res, T |-> T, v |-> v]

Outcome(raised) == IF raised THEN "raised" ELSE "ok"

\* The values a read of o's payload can yield when that payload is not a
\* live object (0 stands for "not read").
Garbage(o) ==
  IF desc[o] = EmptyDesc \/ Valid(objs, cast(desc[o], storage[o]))
    THEN {0} ELSE Vals

\* Whether the copy (move) bound into descriptor d has a raising step: a
\* copy constructor or an allocation.
CopyRaises(d) ==
  IF d # EmptyDesc /\ (ver = "draft1" => ~fits_small(d))
    THEN BOOLEAN ELSE {FALSE}
MoveRaises(d) ==
  IF d # EmptyDesc /\ ver = "draft1" /\ ~fits_small(d)
    THEN BOOLEAN ELSE {FALSE}

Apply(w) ==
  /\ Len(w.objs) <= MaxObj
  /\ alive' = w.alive
  /\ desc' = w.desc
  /\ storage' = w.storage
  /\ objs' = w.objs
  /\ ub' = w.ub
  /\ ver' = ver

InitVer(v) ==
  /\ ver = v
  /\ alive = [c \in Cont |-> FALSE]
  /\ desc = [c \in Cont |-> "none"]
  /\ storage = [c \in Cont |-> Raw]
  /\ objs = <<>>
  /\ ub = FALSE
  /\ origin = [c \in Cont |-> NoOrigin]
  /\ ret = Ret("init", 0, 0, "ok", "", 0)

\* Once an operation has read or destroyed through a pointer to no live
\* object the program's further behaviour is undefined: nothing more is said
\* about it.
Defined == ~ub

Init == InitVer("final")
InitDraft1 == InitVer("draft1")
InitDraft2 == InitVer("draft2")

DefaultConstruct(c) ==
  /\ Defined /\ ~alive[c]
  /\ Apply(function_default(World, c).w)
  /\ origin' = [origin EXCEPT ![c] = NoOrigin]
  /\ ret' = Ret("default_construct", c, 0, "ok", "", 0)

ValueConstruct(c) ==
  /\ Defined /\ ~alive[c]
  /\ \E T \in Types, raise \in BOOLEAN : \E v \in ValsOf(T) :
       LET r == function_val(World, c, T, v, raise) IN
       /\ Apply(r.w)
       /\ origin' = IF r.raised THEN origin
                    ELSE [origin EXCEPT
                            ![c] = [v |-> v, root |-> Len(objs) + 1]]
       /\ ret' = Ret("value_construct", c, 0, Outcome(r.raised), T, v)

CopyConstruct(c, o) ==
  /\ Defined /\ ~alive[c] /\ alive[o]
  /\ \E raise \in CopyRaises(desc[o]), g \in Garbage(o) :
       LET r == function_copy_ctor(World, c, o, raise, g) IN
       /\ Apply(r.w)
       /\ origin' = IF r.raised THEN origin
                    ELSE [origin EXCEPT ![c] = origin[o]]
       /\ ret' = Ret("copy_construct", c, o, Outcome(r.raised), "", 0)

MoveConstruct(c, o) ==
  /\ Defined /\ ~alive[c] /\ alive[o]
  /\ \E raise \in MoveRaises(desc[o]), g \in Garbage(o) :
       LET r == function_move_ctor(World, c, o, raise, g) IN
       /\ Apply(r.w)
       /\ origin' = IF r.raised THEN [origin EXCEPT ![o] = NoOrigin]
                    ELSE [origin EXCEPT ![c] = origin[o], ![o] = NoOrigin]
       /\ ret' = Ret("move_construct", c, o, Outcome(r.raised), "", 0)

CopyAssign(c, o) ==
  /\ Defined /\ alive[c] /\ alive[o]
  /\ \E raise \in CopyRaises(desc[o]), g \in Garbage(o) :
       LET r == assign_copy(World, c, o, raise, g) IN
       /\ Apply(r.w)
       /\ origin' = IF r.raised \/ c = o THEN origin
                    ELSE [origin EXCEPT ![c] = origin[o]]
       /\ ret' = Ret("copy_assign", c, o, Outcome(r.raised), "", 0)

MoveAssign(c, o) ==
  /\ Defined /\ alive[c] /\ alive[o]
  /\ \E raise \in MoveRaises(desc[o]), g \in Garbage(o) :
       LET r == assign_move(World, c, o, raise, g) IN
       /\ Apply(r.w)
       /\ origin' = IF c = o THEN origin
                    ELSE [origin EXCEPT ![c] = origin[o], ![o] = NoOrigin]
       /\ ret' = Ret("move_assign", c, o, Outcome(r.raised), "", 0)

Destroy(c) ==
  /\ Defined /\ alive[c]
  /\ Apply(function_dtor(World, c).w)
  /\ origin' = [origin EXCEPT ![c] = NoOrigin]
  /\ ret' = Ret("destroy", c, 0, "ok", "", 0)

Bool(c) ==
  /\ Defined /\ alive[c]
  /\ UNCHANGED <<ver, alive, desc, storage, objs, ub, origin>>
  /\ ret' = Ret("bool", c, 0,
                IF operator_bool(World, c) THEN "true" ELSE "false", "", 0)

Invoke(c) ==
  /\ Defined /\ alive[c]
  /\ \E x \in ArgVals \cup RaiseArgs :
    /\ \E r \in operator_call(World, c, x) :
         ret' = Ret("invoke", c, 0, r.res, "", r.v)
    /\ ub' = (ub \/ operator_call_ub(World, c))
    /\ UNCHANGED <<ver, alive, desc, storage, objs, origin>>

Target(c) ==
  /\ Defined /\ alive[c]
  /\ \E T \in Types :
    /\ LET p == target(World, c, T) IN
       ret' = Ret("target", c, 0,
                  IF p = Null THEN "null"
                  ELSE IF p = Wild THEN "wild" ELSE "object", T, p)
    /\ UNCHANGED <<ver, alive, desc, storage, objs, ub, origin>>

\* *c.target<T>() = T{v}: the caller writes the payload through the pointer
\* that target<T>() returned.
Mutate(c) ==
  /\ Defined /\ alive[c]
  /\ \E T \in Types : \E v \in ValsOf(T) :
    /\ LET p == target(World, c, T) IN
       /\ p # Null
       /\ objs' = IF Valid(objs, p) THEN [objs EXCEPT ![p].val = v]
                                    ELSE objs
       /\ ub' = (ub \/ ~Valid(objs, p))
       /\ origin' = [origin EXCEPT ![c].v = v]
       /\ ret' = Ret("mutate", c, 0, "ok", T, v)
    /\ UNCHANGED <<ver, alive, desc, storage>>

Next ==
  \/ \E c \in Cont : DefaultConstruct(c)
  \/ \E c \in Cont : ValueConstruct(c)
  \/ \E c, o \in Cont : CopyConstruct(c, o)
  \/ \E c, o \in Cont : MoveConstruct(c, o)
  \/ \E c, o \in Cont : CopyAssign(c, o)
  \/ \E c, o \in Cont : MoveAssign(c, o)
  \/ \E c \in Cont : Destroy(c)
  \/ \E c \in Cont : Bool(c)
  \/ \E c \in Cont : Invoke(c)
  \/ \E c \in Cont : Target(c)
  \/ \E c \in Cont : Mutate(c)

Spec == Init /\ [][Next]_vars
SpecDraft1 == InitDraft1 /\ [][Next]_vars
SpecDraft2 == InitDraft2 /\ [][Next]_vars


(* ---- properties ------------------------------------------------------ *)
Holding(c) == alive[c] /\ desc[c] # EmptyDesc

\* The object a holding container reaches through its descriptor.
Payload(c) == cast(desc[c], storage[c])

\* The live containers whose slot holds object p (inline or by pointer).
Owners(p) ==
  {c \in Cont : Holding(c) /\ storage[c].k # "raw" /\ storage[c].id = p}

NoneAlive == \A c \in Cont : ~alive[c]

Destructed(os, p) ==
  os[p].ndtor = 1 /\ os[p].nfree = (IF os[p].heap THEN 1 ELSE 0)

\* No object is destructed or deallocated twice, and a heap block is
\* deallocated exactly when its object is destructed.
NoDoubleDestroy(os) ==
  \A p \in 1..Len(os) :
    /\ os[p].ndtor <= 1
    /\ os[p].nfree = (IF os[p].heap THEN os[p].ndtor ELSE 0)

\* C1 (part_000): every live payload object is held by exactly one live
\* container, no payload is destructed or deallocated more than once, and
\* when no container is left every payload has been destructed once and
\* every heap block deallocated once.
C1_ExclusiveOwnership ==
  /\ NoDoubleDestroy(objs)
  /\ \A p \in 1..Len(objs) :
       objs[p].ndtor = 0 => Cardinality(Owners(p)) = 1
  /\ NoneAlive => \A p \in 1..Len(objs) : Destructed(objs, p)

\* All containers are gone after three payloads, inline and on the heap,
\* were made and released.
C1_Witness ==
  /\ NoneAlive
  /\ ret.op = "destroy"
  /\ Len(objs) = 3
  /\ \E p, q \in 1..Len(objs) : objs[p].heap /\ ~objs[q].heap

\* C2 (part_000): a copy-assignment that raises leaves the target with its
\* descriptor, its slot and every payload object as they were, so its
\* boolean query and its invocation results are unchanged and its old value
\* is still live; nothing is destructed twice afterwards.
C2_CopyAssignRollback ==
  [][\A c \in Cont :
       (ret'.op = "copy_assign" /\ ret'.res = "raised" /\ ret'.dst = c) =>
         /\ alive'[c]
         /\ desc'[c] = desc[c]
         /\ storage'[c] = storage[c]
         /\ objs' = objs
         /\ operator_bool(World', c) = operator_bool(World, c)
         /\ \A x \in ArgVals :
              operator_call(World', c, x) = operator_call(World, c, x)
         /\ Holding(c) => Valid(objs', cast(desc'[c], storage'[c]))
         /\ NoDoubleDestroy(objs')]_vars

\* A copy-assignment to a holding target has raised.
C2_Witness ==
  /\ ret.op = "copy_assign"
  /\ ret.res = "raised"
  /\ Holding(ret.dst)
  /\ Holding(ret.src)
  /\ Valid(objs, Payload(ret.dst))
  /\ Payload(ret.dst) # Payload(ret.src)

\* C3 (first draft): a copy-assignment that raises leaves the target with
\* its prior descriptor and its prior payload, which is still live.
C3_Draft1CopyAssignStaged ==
  [][\A c \in Cont :
       (ret'.op = "copy_assign" /\ ret'.res = "raised" /\ ret'.dst = c) =>
         /\ desc'[c] = desc[c]
         /\ storage'[c] = storage[c]
         /\ Holding(c) /\ Valid(objs, Payload(c))
              => Valid(objs', cast(desc'[c], storage'[c]))]_vars


Moves == {"move_construct", "move_assign"}
Copies == {"copy_construct", "copy_assign"}
BadCall == {[res |-> "bad_function_call", v |-> 0]}

\* C4 (part_000): a move-construct or move-assign of b from another
\* container a leaves a Empty (boolean query false, invocation raises
\* bad_function_call) and b with a's descriptor, a's payload (the very heap
\* object when large, an equal object when small) and a's invocation
\* results; destroying an Empty container touches no payload.
C4_MoveEmptiesSource ==
  [][/\ \A a, b \in Cont :
          (ret'.op \in Moves /\ ret'.dst = b /\ ret'.src = a /\ a # b) =>
            /\ alive'[a] /\ alive'[b]
            /\ desc'[a] = EmptyDesc
            /\ ~operator_bool(World', a)
            /\ \A x \in ArgVals : operator_call(World', a, x) = BadCall
            /\ desc'[b] = desc[a]
            /\ operator_bool(World', b) = operator_bool(World, a)
            /\ \A x \in ArgVals :
                 operator_call(World', b, x) = operator_call(World, a, x)
            /\ desc[a] # EmptyDesc =>
                 LET pa == cast(desc[a], storage[a])
                     pb == cast(desc'[b], storage'[b]) IN
                 /\ Valid(objs, pa) /\ Valid(objs', pb)
                 /\ objs'[pb].type = objs[pa].type
                 /\ objs'[pb].val = objs[pa].val
                 /\ ~fits_small(desc[a]) => pb = pa /\ objs'[pb] = objs[pa]
     /\ \A a \in Cont :
          (ret'.op = "destroy" /\ ret'.dst = a /\ desc[a] = EmptyDesc) =>
            objs' = objs]_vars

\* b was move-assigned from a holding a; a is now Empty.
C4_Witness ==
  /\ ret.op = "move_assign"
  /\ ret.src # ret.dst
  /\ desc[ret.src] = EmptyDesc
  /\ Holding(ret.dst)
  /\ storage[ret.src].k # "raw"

\* C5 (part_000): the boolean query is true exactly when the descriptor is
\* not the empty singleton; invoking an Empty container (default-constructed
\* or emptied later) raises bad_function_call, and invoking a holding
\* container does not.
C5_EmptyCallError ==
  /\ \A c \in Cont : alive[c] =>
       /\ operator_bool(World, c) = (desc[c] # EmptyDesc)
       /\ \A x \in ArgVals :
            IF desc[c] = EmptyDesc
              THEN operator_call(World, c, x) = BadCall
              ELSE operator_call(World, c, x) \cap BadCall = {}
  /\ ret.op = "default_construct" => desc[ret.dst] = EmptyDesc
  /\ ret.op = "invoke" =>
       (ret.res = "bad_function_call") = (desc[ret.dst] = EmptyDesc)
  /\ ret.op = "bool" => (ret.res = "false") = (desc[ret.dst] = EmptyDesc)

\* An Empty container that once held a payload was invoked and raised.
C5_Witness ==
  /\ ret.op = "invoke"
  /\ ret.res = "bad_function_call"
  /\ storage[ret.dst].k # "raw"
  /\ \E c \in Cont : Holding(c)

\* C6 (part_000): two holding containers never hold the same payload
\* object; a successful copy gives the target an object equal to the
\* source's; and an operation leaves every container that is neither its
\* target nor the source of a move exactly as it was: descriptor, slot,
\* payload object and invocation results.
C6_CopyIndependence ==
  [][/\ \A a, b \in Cont :
          (a # b /\ alive'[a] /\ alive'[b] /\ desc'[a] # EmptyDesc
             /\ desc'[b] # EmptyDesc) =>
            cast(desc'[a], storage'[a]) # cast(desc'[b], storage'[b])
     /\ \A a, b \in Cont :
          (ret'.op \in Copies /\ ret'.res = "ok" /\ ret'.dst = b
             /\ ret'.src = a /\ a # b /\ desc[a] # EmptyDesc) =>
            LET pa == cast(desc[a], storage[a])
                pb == cast(desc'[b], storage'[b]) IN
            /\ Valid(objs', pa) /\ Valid(objs', pb)
            /\ objs'[pb].val = objs[pa].val
            /\ objs'[pb].heap = ~fits_small(desc[a])
     /\ \A b \in Cont :
          (alive[b] /\ ret'.dst # b
             /\ ~(ret'.op \in Moves /\ ret'.src = b)) =>
            /\ alive'[b]
            /\ desc'[b] = desc[b]
            /\ storage'[b] = storage[b]
            /\ desc[b] # EmptyDesc =>
                 objs'[cast(desc[b], storage[b])]
                   = objs[cast(desc[b], storage[b])]
            /\ \A x \in ArgVals :
                 operator_call(World', b, x) = operator_call(World, b, x)
    ]_vars

\* One of two copies of one callable (separate objects) was written through
\* target<T>() and the two now differ.
C6_Witness ==
  /\ ret.op = "mutate"
  /\ \E b \in Cont :
       /\ b # ret.dst
       /\ Holding(b) /\ Holding(ret.dst)
       /\ desc[b] = desc[ret.dst]
       /\ origin[b].root = origin[ret.dst].root
       /\ Payload(b) # Payload(ret.dst)
       /\ objs[Payload(b)].val # objs[Payload(ret.dst)].val

\* C7 (first draft): once every container has been destroyed no heap block
\* remains allocated.
C7_Draft1NoLeak ==
  NoneAlive => \A p \in 1..Len(objs) : objs[p].heap => objs[p].nfree = 1

\* C8 (part_000): a container constructed from a callable of type T with
\* captured value v holds T: the boolean query is true, target<T>() points
\* to a live T with value v, and invoking with x returns v + x.
C8_ValueConstructHolds ==
  (ret.op = "value_construct" /\ ret.res = "ok") =>
    LET c == ret.dst
        p == target(World, c, ret.T) IN
    /\ alive[c]
    /\ desc[c] = ret.T
    /\ operator_bool(World, c)
    /\ p # Null /\ Valid(objs, p)
    /\ objs[p].type = ret.T
    /\ objs[p].val = ret.v
    /\ objs[p].heap = ~fits_small(ret.T)
    /\ \A x \in ArgVals :
         operator_call(World, c, x) = {[res |-> "returned", v |-> ret.v + x]}

\* A container was constructed from a small callable whose move may raise.
C8_Witness ==
  /\ ret.op = "value_construct"
  /\ ret.res = "ok"
  /\ ret.T = "M"
  /\ Holding(ret.dst)

\* Container c holds a live payload of type T.
HoldsType(c, T) ==
  /\ alive[c]
  /\ desc[c] = T
  /\ storage[c].k # "raw"
  /\ Valid(objs, storage[c].id)
  /\ objs[storage[c].id].type = T

\* C9 (part_000 and both drafts): target<T>() is non-null exactly when the
\* container holds a live payload of type T, and what it returns is that
\* payload, never the slot's bytes read as something else.
C9_TargetExact ==
  \A c \in Cont : \A T \in Types :
    alive[c] =>
      LET p == target(World, c, T) IN
      /\ (p # Null) = HoldsType(c, T)
      /\ p # Null => p = storage[c].id

\* C10 (part_000): a holding container's payload descends by copies and
\* moves from a callable with captured value v, and invoking the container
\* with x returns v + x.
C10_RoundTrip ==
  \A c \in Cont :
    Holding(c) =>
      \A x \in ArgVals :
        operator_call(World, c, x)
          = {[res |-> "returned", v |-> origin[c].v + x]}

\* The container invoked holds the third object made, a small one two
\* copies or moves away from the first object, which is gone; the object in
\* between is held by another container.
C10_Witness ==
  /\ ret.op = "invoke"
  /\ ret.res = "returned"
  /\ Len(objs) = 3
  /\ \A p \in 1..3 : ~objs[p].heap
  /\ objs[1].ndtor = 1
  /\ Holding(ret.dst)
  /\ storage[ret.dst] = Inl(3)
  /\ origin[ret.dst].root = 1
  /\ \E c \in Cont :
       storage[c] = Inl(2) /\ Holding(c) /\ origin[c].root = 1

\* Container c of world w is Empty or Holding<T>: its descriptor is the empty
\* singleton or some type's, and in the latter case the slot holds a live T
\* inline (T small) or the only pointer to a live heap T (T large).
WellFormed(w, c) ==
  /\ w.desc[c] \in {EmptyDesc} \cup Types
  /\ w.desc[c] # EmptyDesc =>
       LET T == w.desc[c]
           s == w.storage[c] IN
       /\ s.k = (IF fits_small(T) THEN "inl" ELSE "ptr")
       /\ Valid(w.objs, s.id)
       /\ w.objs[s.id].type = T
       /\ w.objs[s.id].heap = ~fits_small(T)
       /\ \A c2 \in Cont \ {c} :
            (w.alive[c2] /\ w.desc[c2] # EmptyDesc) => w.storage[c2].id # s.id

\* C11 (part_000), as amended: whenever no operation is in progress every
\* live container, moved-from ones included, is well formed, and no
\* operation has gone through a pointer to no live object.
C11_DescriptorSlotInvariant ==
  /\ ~ub
  /\ \A c \in Cont : alive[c] => WellFormed(World, c)

\* A move-assignment has completed; its source is Empty over a stale pointer
\* and its target holds the large payload.
C11_Witness ==
  /\ ret.op = "move_assign"
  /\ ret.src # ret.dst
  /\ alive[ret.src]
  /\ desc[ret.src] = EmptyDesc
  /\ storage[ret.src].k = "ptr"
  /\ Holding(ret.dst)
  /\ storage[ret.dst] = storage[ret.src]

\* C11 (part_000), as stated: every live container is well formed in every
\* state, also between the steps of an assignment that completes.
C11_WellFormedAtEveryStep ==
  /\ \A c \in Cont : alive[c] => WellFormed(World, c)
  /\ \A c, o \in Cont :
       (c # o /\ alive[c] /\ alive[o]) =>
         /\ \A raise \in CopyRaises(desc[o]), g \in Garbage(o) :
              LET m == assign_copy_final_mid(World, c, o, raise, g) IN
              ~m.raised => WellFormed(m.w, c)
         /\ WellFormed(assign_move_final_mid(World, c, o).w, c)

\* C12 (first draft): a slot that was filled for a payload of type T holds
\* an inline object exactly when T's descriptor operations read the slot as
\* an inline object (fits_small<T>), and a heap pointer otherwise; this also
\* for a T smaller than the slot whose move can raise.
C12_Draft1PlacementMatchesDescriptor ==
  /\ (ret.op = "value_construct" /\ ret.res = "ok") =>
       storage[ret.dst].k = (IF fits_small(ret.T) THEN "inl" ELSE "ptr")
  /\ \A c \in Cont :
       (alive[c] /\ desc[c] \in Types /\ storage[c].k # "raw") =>
         cast(desc[c], storage[c]) # Wild

\* Container a of the unprimed state holds a live payload of a small type.
HoldsSmall(a) ==
  /\ Holding(a)
  /\ fits_small(desc[a])
  /\ storage[a].k = "inl"
  /\ Valid(objs, storage[a].id)

\* C13 (both drafts): on small payloads a copy constructs a new object in
\* the target, a move constructs a new object in the target and destroys
\* the moved-from one, no inline object is ever destructed twice, and once
\* no container is left every inline object has been destructed once.
C13_DraftsSmallPayloadLifetime ==
  [][/\ \A a, b \in Cont :
          (ret'.op \in Copies /\ ret'.res = "ok" /\ ret'.dst = b
             /\ ret'.src = a /\ a # b /\ HoldsSmall(a)) =>
            /\ storage'[b] = Inl(Len(objs) + 1)
            /\ Valid(objs', Len(objs) + 1)
            /\ Valid(objs', storage[a].id)
     /\ \A a, b \in Cont :
          (ret'.op \in Moves /\ ret'.dst = b /\ ret'.src = a /\ a # b
             /\ HoldsSmall(a)) =>
            /\ storage'[b] = Inl(Len(objs) + 1)
            /\ Valid(objs', Len(objs) + 1)
            /\ objs'[storage[a].id].ndtor = 1
     /\ \A p \in 1..Len(objs') : ~objs'[p].heap => objs'[p].ndtor <= 1
     /\ (\A c \in Cont : ~alive'[c]) =>
          \A p \in 1..Len(objs') : ~objs'[p].heap => objs'[p].ndtor = 1
    ]_vars

\* C14 (first draft): when a container is move-constructed from one holding
\* a large payload and the payload's move constructor (or the allocation)
\* raises, the move constructor of the container raises too.
C14_Draft1MoveRaisePropagates ==
  \A c, o \in Cont :
    (~alive[c] /\ alive[o] /\ desc[o] # EmptyDesc /\ ~fits_small(desc[o])
       /\ TRUE \in MoveRaises(desc[o])) =>
      \A g \in Garbage(o) : function_move_ctor(World, c, o, TRUE, g).raised

\* The heap blocks of os that are allocated.
LiveHeap(os) == {p \in 1..Len(os) : os[p].heap /\ os[p].nfree = 0}

\* C15 (part_000): a move-construct or move-assign of b from another
\* container a that holds a large payload allocates nothing and neither
\* destructs nor deallocates that payload: no object is made, the allocated
\* heap blocks are those of before (less the one b's old value owned), and
\* target<T>() of b is the pointer target<T>() of a was.
C15_LargeMoveStealsPointer ==
  [][\A a, b \in Cont :
       (ret'.op \in Moves /\ ret'.dst = b /\ ret'.src = a /\ a # b
          /\ desc[a] # EmptyDesc /\ ~fits_small(desc[a])) =>
         LET T == desc[a]
             p == target(World, a, T)
             old == IF alive[b] /\ desc[b] # EmptyDesc /\ ~fits_small(desc[b])
                      THEN {big_cast(storage[b])} ELSE {} IN
         /\ p # Null /\ Valid(objs, p)
         /\ target(World', b, T) = p
         /\ objs'[p] = objs[p]
         /\ Len(objs') = Len(objs)
         /\ LiveHeap(objs') = LiveHeap(objs) \ old
         /\ p \in LiveHeap(objs')]_vars

\* A container holding a large payload was move-assigned from another one
\* holding a large payload; its old payload is deallocated, the moved one is
\* not.
C15_Witness ==
  /\ ret.op = "move_assign"
  /\ ret.src # ret.dst
  /\ Len(objs) = 2
  /\ storage[ret.dst].k = "ptr"
  /\ Holding(ret.dst)
  /\ LET p == storage[ret.dst].id IN
     /\ Valid(objs, p)
     /\ objs[3 - p].heap /\ objs[3 - p].nfree = 1

\* The classification as the specification words it: strictly smaller than
\* the slot, alignment dividing the slot's, moves that cannot raise.
SmallBySpec(T) ==
  /\ SizeOf(T) < SlotSize
  /\ SlotAlign % AlignOf(T) = 0
  /\ NothrowMoveCtor(T)
  /\ NothrowMoveAssign(T)

\* C16 (part_000): whatever operation filled it (value constructor, copy,
\* move), the slot of a container holding T holds an inline object exactly
\* when T is small as the specification words it and a pointer to a heap
\* object otherwise, in particular a heap object for a T as large as the slot
\* or with a move that can raise; invoke reads the payload that way, and
\* destroy has deallocated exactly the heap objects it destructed.
C16_InlineIffSmall ==
  /\ \A c \in Cont :
       Holding(c) =>
         LET T == desc[c]
             s == storage[c] IN
         /\ (s.k = "inl") = SmallBySpec(T)
         /\ (s.k = "ptr") = ~SmallBySpec(T)
         /\ (SizeOf(T) = SlotSize \/ ~NothrowMoveCtor(T)) => s.k = "ptr"
         /\ Valid(objs, s.id)
         /\ objs[s.id].type = T
         /\ objs[s.id].heap = ~SmallBySpec(T)
         /\ \A x \in ArgVals :
              operator_call(World, c, x)
                = {[res |-> "returned", v |-> objs[s.id].val + x]}
  /\ \A p \in 1..Len(objs) :
       objs[p].nfree = (IF objs[p].heap THEN objs[p].ndtor ELSE 0)

\* A container holding a payload exactly as large as the slot was copied,
\* and a payload of another type has been destroyed before.
C16_Witness ==
  /\ ret.op = "copy_construct"
  /\ ret.res = "ok"
  /\ Holding(ret.dst)
  /\ desc[ret.dst] = "E"
  /\ storage[ret.dst].k = "ptr"
  /\ storage[ret.src] # storage[ret.dst]
  /\ \E p \in 1..Len(objs) : objs[p].ndtor = 1

CallRaised == {[res |-> "raised", v |-> 0]}

\* C17 (part_000): invoking a container that holds T with an argument on
\* which T's call operator raises gives the caller that exception, not a
\* value and not bad_function_call; and an invocation of a holding container
\* that raises leaves the container holding T, with the same descriptor,
\* slot and payload and with no object made, destructed or deallocated.
C17_InvokeRaisePropagates ==
  [][/\ \A c \in Cont :
          Holding(c) =>
            \A x \in RaiseArgs : operator_call(World, c, x) = CallRaised
     /\ \A c \in Cont :
          (ret'.op = "invoke" /\ ret'.dst = c /\ ret'.res = "raised") =>
            /\ Holding(c)
            /\ alive'[c]
            /\ desc'[c] = desc[c]
            /\ storage'[c] = storage[c]
            /\ objs' = objs
            /\ operator_bool(World', c)
            /\ Valid(objs', cast(desc'[c], storage'[c]))
            /\ \A x \in ArgVals :
                 operator_call(World', c, x) = operator_call(World, c, x)
    ]_vars

\* The invocation of a container holding a heap payload has raised.
C17_Witness ==
  /\ ret.op = "invoke"
  /\ ret.res = "raised"
  /\ Holding(ret.dst)
  /\ storage[ret.dst].k = "ptr"
  /\ Valid(objs, storage[ret.dst].id)

\* C18 (part_000): a copy-construct, move-construct, copy-assign or
\* move-assign of b from another container a that is Empty does not raise,
\* leaves b Empty and a Empty, and makes no object; an assignment to a b that
\* held a payload destructs (and, if on the heap, deallocates) that payload
\* once and touches no other object; in every other case no object changes.
C18_FromEmptySource ==
  [][\A a, b \in Cont :
       (ret'.op \in Copies \cup Moves /\ ret'.dst = b /\ ret'.src = a
          /\ a # b /\ alive[a] /\ desc[a] = EmptyDesc) =>
         /\ ret'.res = "ok"
         /\ alive'[b] /\ desc'[b] = EmptyDesc
         /\ ~operator_bool(World', b)
         /\ alive'[a] /\ desc'[a] = EmptyDesc
         /\ Len(objs') = Len(objs)
         /\ ~ub'
         /\ IF alive[b] /\ desc[b] # EmptyDesc
              THEN LET p == cast(desc[b], storage[b]) IN
                   /\ Valid(objs, p)
                   /\ objs'[p].ndtor = 1
                   /\ objs'[p].nfree = (IF objs[p].heap THEN 1 ELSE 0)
                   /\ \A q \in 1..Len(objs) : q # p => objs'[q] = objs[q]
              ELSE objs' = objs]_vars

\* A container was copy-assigned from an Empty one: both are Empty now and
\* the only payload ever made, a heap object, has been released.
C18_Witness ==
  /\ ret.op = "copy_assign"
  /\ ret.src # ret.dst
  /\ alive[ret.src] /\ desc[ret.src] = EmptyDesc
  /\ alive[ret.dst] /\ desc[ret.dst] = EmptyDesc
  /\ storage[ret.src] = Raw
  /\ Len(objs) = 1
  /\ objs[1].heap /\ objs[1].ndtor = 1 /\ objs[1].nfree = 1

\* C19 (part_000): a copy-assignment or move-assignment of a container to
\* itself does not raise and changes nothing: descriptor, slot and every
\* payload object are as before, so a holding container still holds its
\* payload, invokes as before and is not left Empty.
C19_SelfAssignNoOp ==
  [][\A c \in Cont :
       (ret'.op \in {"copy_assign", "move_assign"} /\ ret'.dst = c
          /\ ret'.src = c) =>
         /\ ret'.res = "ok"
         /\ alive'[c]
         /\ desc'[c] = desc[c]
         /\ storage'[c] = storage[c]
         /\ objs' = objs
         /\ ~ub'
         /\ operator_bool(World', c) = operator_bool(World, c)
         /\ \A x \in ArgVals :
              operator_call(World', c, x) = operator_call(World, c, x)
         /\ Holding(c) => Valid(objs', cast(desc'[c], storage'[c]))]_vars

\* A container holding a heap payload was move-assigned to itself.
C19_Witness ==
  /\ ret.op = "move_assign"
  /\ ret.src = ret.dst
  /\ Holding(ret.dst)
  /\ storage[ret.dst].k = "ptr"
  /\ Valid(objs, storage[ret.dst].id)

====
